---- MODULE Spec2Model ----
(***************************************************************************)
(* A model of mitiq/calibration/settings.py: the Settings aggregate, the   *)
(* BenchmarkProblem and Strategy entities it generates and the             *)
(* MitigationTechnique enum.                                               *)
(*                                                                         *)
(* Python values are represented as follows.                               *)
(*   str (technique names)  a sequence of one-character strings, so that   *)
(*                          str.upper() is computed character by character *)
(*   str (other)            a TLA+ string                                  *)
(*   list                   a sequence                                     *)
(*   dict                   a function whose domain is the key set         *)
(*   Optional[int]          <<>> for None, <<s>> for the integer s         *)
(*   float probability      a pair <<numerator, denominator>>              *)
(*   objects in a strategy dictionary: records tagged by "kind"            *)
(***************************************************************************)
EXTENDS Integers, Sequences, FiniteSets, TLC

\* ------------------------------------------------------------------ bounds
\* longest circuit_types list drawn as an input
MaxTypes == 2
\* longest strategies list drawn as an input
MaxStrategies == 2
\* num_qubits is drawn from 1..MaxQubits
MaxQubits == 2
\* circuit_depth is drawn from 1..MaxDepth
MaxDepth == 1
\* circuit_seed is None or drawn from 0..MaxSeed; an unseeded mirror circuit
\* draws its randomness from the same range
MaxSeed == 1

\* ------------------------------------------------------------ Python values
None == <<>>
Some(x) == <<x>>

EmptyDict == <<>>

\* d with d[k] = v added or overwritten (d[k] = v)
\* a plausible slip: the table is replaced by one holding the new entry alone
DictReplace(d, k, v) == [x \in {k} |-> v]

DictSet(d, k, v) == [x \in (DOMAIN d) \cup {k} |-> IF x = k THEN v ELSE d[x]]

\* d without key k (del d[k]; the caller checks that k is present)
DictDel(d, k) == [x \in (DOMAIN d) \ {k} |-> d[x]]

\* "c" * n
Repeat(c, n) == [i \in 1..n |-> c]

\* values found in a strategy dictionary
StrVal(chars) == [kind |-> "str", chars |-> chars]
FuncVal(name) == [kind |-> "function", name |-> name]
FactoryVal(cls, sf) == [kind |-> "factory", cls |-> cls, scale_factors |-> sf]
IntVal(v) == [kind |-> "int", val |-> v]

\* str.upper() on ASCII text
LowerCase == <<"a","b","c","d","e","f","g","h","i","j","k","l","m",
               "n","o","p","q","r","s","t","u","v","w","x","y","z">>
UpperCase == <<"A","B","C","D","E","F","G","H","I","J","K","L","M",
               "N","O","P","Q","R","S","T","U","V","W","X","Y","Z">>

UpperChar(c) ==
    IF \E i \in 1..Len(LowerCase) : LowerCase[i] = c
    THEN UpperCase[CHOOSE i \in 1..Len(LowerCase) : LowerCase[i] = c]
    ELSE c

\* a plausible slip: the name is looked up as written
UpperMissing(s) == s

\* str.upper()
Upper(s) == [i \in 1..Len(s) |-> UpperChar(s[i])]

\* ------------------------------------------------------ MitigationTechnique
MitigationTechnique == {"ZNE", "PEC", "RAW"}

\* the member's name, spelled out
MemberName(m) ==
    CASE m = "ZNE" -> <<"Z","N","E">>
      [] m = "PEC" -> <<"P","E","C">>
      [] m = "RAW" -> <<"R","A","W">>

\* MitigationTechnique[name]: the member called name, or KeyError
HasMember(name) == \E m \in MitigationTechnique : MemberName(m) = name
Member(name) == CHOOSE m \in MitigationTechnique : MemberName(m) = name

\* MitigationTechnique.mitigation_function
TechniqueFunction(m) ==
    CASE m = "ZNE" -> "execute_with_zne"
      [] m = "PEC" -> "execute_with_pec"
      [] m = "RAW" -> "execute"

\* -------------------------------------------------------- circuit generators
\* The generators live in mitiq.benchmarks; a circuit is kept as the call that
\* built it.
Circuit(generator, arguments) == [generator |-> generator, arguments |-> arguments]

generate_ghz_circuit(nqubits) == Circuit("generate_ghz_circuit", <<nqubits>>)

\* the list returned has at least one circuit; [0] is kept
generate_rb_circuits(nqubits, depth) ==
    <<Circuit("generate_rb_circuits", <<nqubits, depth>>)>>

generate_quantum_volume_circuit(nqubits, depth) ==
    <<Circuit("generate_quantum_volume_circuit", <<nqubits, depth>>), <<>>>>

\* seed = None lets the generator draw its own randomness (draw)
generate_mirror_circuit(nlayers, nqubits, seed, draw) ==
    LET s == IF seed = None THEN draw ELSE seed[1]
    IN  <<Circuit("generate_mirror_circuit", <<nlayers, nqubits, s>>),
          [q \in 1..nqubits |-> (s + nlayers + q) % 2]>>

\* str(b) for a bit b
BitStr(b) == IF b = 0 THEN "0" ELSE "1"

\* "".join(map(str, bitstring_list))
JoinBits(bitstring_list) ==
    [q \in 1..Len(bitstring_list) |-> BitStr(bitstring_list[q])]

\* probabilities 0.5 and 1.0
Half == <<1, 2>>
One == <<1, 1>>

\* ------------------------------------------------------------ dataclasses
BenchmarkProblem(id, circuit, type, ideal_distribution) ==
    [id |-> id, circuit |-> circuit, type |-> type,
     ideal_distribution |-> ideal_distribution]

Strategy(id, technique, technique_params) ==
    [id |-> id, technique |-> technique, technique_params |-> technique_params]

\* Strategy.mitigation_function: partial(technique function, **technique_params)
mitigation_function(strategy) ==
    [func |-> TechniqueFunction(strategy.technique),
     keywords |-> strategy.technique_params]

\* what a call returned or raised
\* what a call returned or raised: the method, its argument (<<>> when it takes
\* none), the exception ("" when it returned) and the value returned, or what
\* the exception is about
Returned(op, arg, value) == [op |-> op, arg |-> arg, exc |-> "", value |-> value]
Raised(op, arg, exc, about) == [op |-> op, arg |-> arg, exc |-> exc, value |-> about]

\* Strategy.to_dict
\* a plausible slip: the ZNE fields are added to every summary that has them
StrategyToDictAnyTechnique(strategy) ==
    LET params == strategy.technique_params
        summary == [id |-> strategy.id, technique |-> strategy.technique]
    IN  IF "factory" \in DOMAIN params /\ params["factory"].kind = "factory"
           /\ "scale_noise" \in DOMAIN params
           /\ params["scale_noise"].kind = "function"
        THEN Returned("to_dict", strategy.id,
                 [id |-> strategy.id, technique |-> strategy.technique,
                  factory |-> params["factory"].cls,
                  scale_factors |-> params["factory"].scale_factors,
                  scale_method |-> params["scale_noise"].name])
        ELSE Returned("to_dict", strategy.id, summary)

StrategyToDict(strategy) ==
    LET params == strategy.technique_params
        summary == [id |-> strategy.id, technique |-> strategy.technique]
    IN  IF strategy.technique = "ZNE"
        THEN IF "factory" \notin DOMAIN params
             THEN Raised("to_dict", strategy.id, "KeyError", "factory")
             ELSE IF params["factory"].kind # "factory"
             THEN Raised("to_dict", strategy.id, "AttributeError", "get_scale_factors")
             ELSE IF "scale_noise" \notin DOMAIN params
             THEN Raised("to_dict", strategy.id, "KeyError", "scale_noise")
             ELSE IF params["scale_noise"].kind # "function"
             THEN Raised("to_dict", strategy.id, "AttributeError", "__name__")
             ELSE Returned("to_dict", strategy.id,
                      [id |-> strategy.id, technique |-> strategy.technique,
                       factory |-> params["factory"].cls,
                       scale_factors |-> params["factory"].scale_factors,
                       scale_method |-> params["scale_noise"].name])
        ELSE Returned("to_dict", strategy.id, summary)

DefaultStrategy == Strategy(0, "RAW", EmptyDict)

\* ------------------------------------------------------------------ Settings
VARIABLES
    pc,               \* "start": arguments chosen, Settings(...) not yet run;
                      \* "ready": the instance exists; "raised": __init__ raised
    args,             \* the arguments Settings(...) is called with
    techniques,       \* self.techniques
    technique_params, \* self.technique_params
    circuit_types,    \* self.circuit_types
    num_qubits,       \* self.num_qubits
    circuit_depth,    \* self.circuit_depth
    circuit_seed,     \* self.circuit_seed
    strategy_dict,    \* self.strategy_dict
    problem_dict,     \* self.problem_dict
    ret,              \* what the last call returned or raised
    called,           \* history: the make_* methods called so far
    generated         \* history: the ids of the strategies make_strategies built

config == <<techniques, technique_params, circuit_types, num_qubits,
            circuit_depth, circuit_seed>>
vars == <<pc, args, techniques, technique_params, circuit_types, num_qubits,
          circuit_depth, circuit_seed, strategy_dict, problem_dict, ret, called,
          generated>>

\* the comprehension of __init__: one technique per dictionary, in list order;
\* the first dictionary that cannot be resolved raises
RECURSIVE ParseTechniques(_, _, _)
ParseTechniques(strategies, k, acc) ==
    IF k > Len(strategies) THEN Returned("__init__", <<>>, acc)
    ELSE LET technique == strategies[k] IN
         IF "technique" \notin DOMAIN technique
         THEN Raised("__init__", <<>>, "KeyError", <<"technique">>)
         ELSE IF technique["technique"].kind # "str"
         THEN Raised("__init__", <<>>, "AttributeError", <<"upper">>)
         ELSE LET name == Upper(technique["technique"].chars) IN
              IF ~HasMember(name)
              THEN Raised("__init__", <<>>, "KeyError", name)
              ELSE ParseTechniques(strategies, k + 1, Append(acc, Member(name)))

\* enumerate(): the 0-based index of the k-th element
\* a plausible slip: ids counted from 1
ProblemIdFromOne(k) == k

ProblemId(k) == k - 1

StrategyIdFromOne(k) == k

StrategyId(k) == k - 1

\* the ideal distributions of lines 219 and 222
GhzIdealAllZero(nqubits) == [b \in {Repeat("0", nqubits)} |-> One]

GhzIdeal(nqubits) ==
    [b \in {Repeat("0", nqubits), Repeat("1", nqubits)} |-> Half]

RbIdeal(nqubits) == [b \in {Repeat("0", nqubits)} |-> One]

\* one pass through the body of the loop of make_problems, up to the
\* construction of the problem: the circuit and its ideal distribution, or
\* the exception raised
QvBranchReturns(nqubits, depth) ==
    [exc |-> "", about |-> "",
     circuit |-> generate_quantum_volume_circuit(nqubits, depth)[1],
     ideal |-> RbIdeal(nqubits)]

QvBranch(nqubits, depth) ==
    [exc |-> "NotImplementedError",
     about |-> "quantum volume circuits not yet supported in calibration",
     circuit |-> generate_quantum_volume_circuit(nqubits, depth)[1],
     ideal |-> EmptyDict]

Generate(circuit_type, nqubits, depth, seed, draw) ==
    IF circuit_type = "ghz"
    THEN [exc |-> "", about |-> "", circuit |-> generate_ghz_circuit(nqubits),
          ideal |-> GhzIdeal(nqubits)]
    ELSE IF circuit_type = "rb"
    THEN [exc |-> "", about |-> "",
          circuit |-> generate_rb_circuits(nqubits, depth)[1],
          ideal |-> RbIdeal(nqubits)]
    ELSE IF circuit_type = "mirror"
    THEN LET m == generate_mirror_circuit(depth, nqubits, seed, draw)
             ideal_bitstring == JoinBits(m[2])
         IN  [exc |-> "", about |-> "", circuit |-> m[1],
              ideal |-> [b \in {ideal_bitstring} |-> One]]
    ELSE IF circuit_type = "qv"
    THEN QvBranch(nqubits, depth)
    ELSE [exc |-> "ValueError", about |-> circuit_type,
          circuit |-> Circuit("", <<>>), ideal |-> EmptyDict]

\* the loop of make_problems from the k-th entry on: the list built so far,
\* problem_dict as written so far, and the exception that ended the loop
RECURSIVE ProblemsLoop(_, _, _, _, _, _, _, _)
ProblemsLoop(types, nqubits, depth, seed, draws, k, circuits, pdict) ==
    IF k > Len(types)
    THEN [exc |-> "", about |-> "", circuits |-> circuits, problem_dict |-> pdict]
    ELSE LET g == Generate(types[k], nqubits, depth, seed, draws[k]) IN
         IF g.exc # ""
         THEN [exc |-> g.exc, about |-> g.about, circuits |-> circuits,
               problem_dict |-> pdict]
         ELSE LET problem == BenchmarkProblem(ProblemId(k), g.circuit, types[k],
                                              g.ideal)
              IN  ProblemsLoop(types, nqubits, depth, seed, draws, k + 1,
                               Append(circuits, problem),
                               DictSet(pdict, problem.id, problem))

\* params.copy() followed by del params_copy["technique"]
ParamsCopyKeepsTechnique(params) == params

ParamsCopy(params) == DictDel(params, "technique")

\* the loop of make_strategies from the k-th pair of the zip on
RECURSIVE StrategiesLoop(_, _, _, _, _)
StrategiesLoop(techs, params, k, funcs, sdict) ==
    IF k > Len(techs) \/ k > Len(params)
    THEN [funcs |-> funcs, strategy_dict |-> sdict]
    ELSE LET strategy == Strategy(StrategyId(k), techs[k], ParamsCopy(params[k]))
         IN  StrategiesLoop(techs, params, k + 1, Append(funcs, strategy),
                            DictSet(sdict, strategy.id, strategy))

\* the tables as __init__ leaves them
EagerStrategyDict(techs, params) ==
    StrategiesLoop(techs, params, 1, <<>>, EmptyDict).strategy_dict

NewStrategyDict(techs, params) == EmptyDict

\* Settings.get_strategy
GetStrategyOrDefault(sdict, strategy_id) ==
    IF strategy_id \in DOMAIN sdict
    THEN Returned("get_strategy", strategy_id, sdict[strategy_id])
    ELSE Returned("get_strategy", strategy_id, DefaultStrategy)

GetStrategy(sdict, strategy_id) ==
    IF strategy_id \in DOMAIN sdict
    THEN Returned("get_strategy", strategy_id, sdict[strategy_id])
    ELSE Raised("get_strategy", strategy_id, "KeyError", strategy_id)

\* ------------------------------------------------------------------- inputs
SeqsUpTo(S, n) == UNION {[1..m -> S] : m \in 0..n}

\* the identifiers make_problems tells apart, and one it does not know
CircuitTypeNames == {"ghz", "rb", "mirror", "qv", "bogus"}

Qubits == 1..MaxQubits
Depths == 1..MaxDepth
Seeds == {None} \cup {Some(s) : s \in 0..MaxSeed}

Richardson123 == FactoryVal("RichardsonFactory", <<1, 2, 3>>)
Richardson135 == FactoryVal("RichardsonFactory", <<1, 3, 5>>)
Linear123 == FactoryVal("LinearFactory", <<1, 2, 3>>)
Linear135 == FactoryVal("LinearFactory", <<1, 3, 5>>)

ZneStrategy(scale_noise, factory) ==
    [technique |-> StrVal(<<"z","n","e">>), scale_noise |-> FuncVal(scale_noise),
     factory |-> factory]

\* strategy dictionaries: well-formed ones in several spellings of the
\* technique, ones whose parameters do not fit the technique, and ones whose
\* technique cannot be resolved
StrategyDicts ==
    { ZneStrategy("fold_global", Richardson123),
      [technique |-> StrVal(<<"Z","N","E">>),
       scale_noise |-> FuncVal("fold_gates_at_random"), factory |-> Linear135],
      [technique |-> StrVal(<<"Z","n","e">>)],
      [technique |-> StrVal(<<"z","n","e">>), factory |-> Richardson123],
      [technique |-> StrVal(<<"z","n","e">>), factory |-> IntVal(3),
       scale_noise |-> FuncVal("fold_global")],
      [technique |-> StrVal(<<"z","n","e">>), factory |-> Linear123,
       scale_noise |-> IntVal(3)],
      [technique |-> StrVal(<<"p","e","c">>), num_samples |-> IntVal(3)],
      [technique |-> StrVal(<<"P","e","c">>), factory |-> Linear123,
       scale_noise |-> FuncVal("fold_global")],
      [technique |-> StrVal(<<"R","A","W">>)],
      [technique |-> StrVal(<<"z","n">>), factory |-> Richardson123],
      [scale_noise |-> FuncVal("fold_global"), factory |-> Richardson123] }

Arguments(types, nqubits, depth, strategies, seed) ==
    [circuit_types |-> types, num_qubits |-> nqubits, circuit_depth |-> depth,
     strategies |-> strategies, circuit_seed |-> seed]

\* the arguments of the module-level ZNESettings
ZNESettingsArguments ==
    Arguments(<<"ghz", "rb", "mirror">>, 2, 5,
              << ZneStrategy("fold_global", Richardson123),
                 ZneStrategy("fold_global", Richardson135),
                 ZneStrategy("fold_global", Linear123),
                 ZneStrategy("fold_global", Linear135),
                 ZneStrategy("fold_gates_at_random", Richardson123),
                 ZneStrategy("fold_gates_at_random", Richardson135),
                 ZneStrategy("fold_gates_at_random", Linear123),
                 ZneStrategy("fold_gates_at_random", Linear135) >>,
              None)

\* every circuit_types list up to MaxTypes, with a fixed pair of strategies
ProblemArguments ==
    { Arguments(types, nqubits, depth,
                << ZneStrategy("fold_global", Richardson123),
                   [technique |-> StrVal(<<"r","a","w">>)] >>, seed) :
        types \in SeqsUpTo(CircuitTypeNames, MaxTypes), nqubits \in Qubits,
        depth \in Depths, seed \in Seeds }

\* every strategies list up to MaxStrategies, with one circuit_types list
StrategyArguments ==
    { Arguments(<<"rb", "mirror", "qv", "ghz">>, MaxQubits, MaxDepth, strategies,
                None) :
        strategies \in SeqsUpTo(StrategyDicts, MaxStrategies) }

Unset(a) ==
    /\ pc = "start"
    /\ args = a
    /\ techniques = <<>>
    /\ technique_params = <<>>
    /\ circuit_types = <<>>
    /\ num_qubits = 0
    /\ circuit_depth = 0
    /\ circuit_seed = None
    /\ strategy_dict = EmptyDict
    /\ problem_dict = EmptyDict
    /\ ret = Returned("", <<>>, <<>>)
    /\ called = {}
    /\ generated = {}

Init ==
    \/ \E a \in ProblemArguments : Unset(a)
    \/ \E a \in StrategyArguments : Unset(a)
    \/ Unset(ZNESettingsArguments)

\* ------------------------------------------------------------------ actions
\* Settings.__init__
SettingsInit ==
    /\ pc = "start"
    /\ LET parsed == ParseTechniques(args.strategies, 1, <<>>) IN
       IF parsed.exc # ""
       THEN /\ pc' = "raised"
            /\ ret' = parsed
            /\ UNCHANGED <<config, strategy_dict, problem_dict>>
       ELSE /\ pc' = "ready"
            /\ techniques' = parsed.value
            /\ technique_params' = args.strategies
            /\ circuit_types' = args.circuit_types
            /\ num_qubits' = args.num_qubits
            /\ circuit_depth' = args.circuit_depth
            /\ circuit_seed' = args.circuit_seed
            /\ strategy_dict' = NewStrategyDict(parsed.value, args.strategies)
            /\ problem_dict' = EmptyDict
            /\ ret' = Returned("__init__", <<>>, <<>>)
    /\ UNCHANGED <<args, called, generated>>

\* the randomness the unseeded mirror generator draws: one draw per "mirror"
\* entry (the other entries draw nothing)
Draws ==
    LET mirrors == {k \in 1..Len(circuit_types) : circuit_types[k] = "mirror"}
    IN  IF circuit_seed = None
        THEN {[k \in 1..Len(circuit_types) |-> IF k \in mirrors THEN d[k] ELSE 0] :
                d \in [mirrors -> 0..MaxSeed]}
        ELSE {[k \in 1..Len(circuit_types) |-> 0]}

\* Settings.make_problems
MakeProblems ==
    /\ pc = "ready"
    /\ \E draws \in Draws :
         LET r == ProblemsLoop(circuit_types, num_qubits, circuit_depth,
                               circuit_seed, draws, 1, <<>>, problem_dict)
         IN  /\ problem_dict' = r.problem_dict
             /\ ret' = IF r.exc = "" THEN Returned("make_problems", <<>>, r.circuits)
                       ELSE Raised("make_problems", <<>>, r.exc, r.about)
    /\ called' = called \cup {"make_problems"}
    /\ UNCHANGED <<pc, args, config, strategy_dict, generated>>

\* Settings.make_strategies
MakeStrategies ==
    /\ pc = "ready"
    /\ LET r == StrategiesLoop(techniques, technique_params, 1, <<>>,
                               strategy_dict)
       IN  /\ strategy_dict' = r.strategy_dict
           /\ ret' = Returned("make_strategies", <<>>, r.funcs)
           /\ generated' =
                  generated \cup {r.funcs[k].id : k \in 1..Len(r.funcs)}
    /\ called' = called \cup {"make_strategies"}
    /\ UNCHANGED <<pc, args, config, problem_dict>>

\* Settings.get_strategy, for the ids of the configured strategies and one more
GetStrategyCall ==
    /\ pc = "ready"
    /\ \E strategy_id \in 0..Len(technique_params) :
         ret' = GetStrategy(strategy_dict, strategy_id)
    /\ UNCHANGED <<pc, args, config, strategy_dict, problem_dict, called,
                   generated>>

\* Strategy.to_dict on a strategy of the table
ToDictCall ==
    /\ pc = "ready"
    /\ \E strategy_id \in DOMAIN strategy_dict :
         ret' = StrategyToDict(strategy_dict[strategy_id])
    /\ UNCHANGED <<pc, args, config, strategy_dict, problem_dict, called,
                   generated>>

Next ==
    \/ SettingsInit
    \/ MakeProblems
    \/ MakeStrategies
    \/ GetStrategyCall
    \/ ToDictCall

Spec == Init /\ [][Next]_vars

\* ------------------------------------------------------------------- claims
\* the circuit types make_problems generates a problem for
Supported == {"ghz", "rb", "mirror"}

\* the positions of circuit_types that hold no supported type
Unsupported == {k \in 1..Len(circuit_types) : circuit_types[k] \notin Supported}

\* the first of them
FirstUnsupported == CHOOSE k \in Unsupported : \A j \in Unsupported : k <= j

\* C1: when circuit_types holds only "ghz", "rb" and "mirror", make_problems
\* returns one problem per entry, and the problem at each position has that
\* position (counted from 0) as its id and the entry as its type.
Thm_C1 ==
    (ret.op = "make_problems" /\ Unsupported = {}) =>
        /\ ret.exc = ""
        /\ Len(ret.value) = Len(circuit_types)
        /\ \A k \in 1..Len(circuit_types) :
               /\ ret.value[k].id = k - 1
               /\ ret.value[k].type = circuit_types[k]

\* make_problems returned a list for a circuit_types list that names one type twice
Wit_C1 ==
    /\ ret.op = "make_problems"
    /\ ret.exc = ""
    /\ Len(ret.value) >= 2
    /\ circuit_types[1] = circuit_types[2]

\* C2: every problem make_problems returns has, for type "ghz", the ideal
\* distribution that gives the all-0 and the all-1 bitstring of num_qubits
\* characters probability 1/2 each and, for type "rb", the one that gives the
\* all-0 bitstring probability 1; either is non-empty and all its keys have
\* num_qubits characters.
Thm_C2 ==
    (ret.op = "make_problems" /\ ret.exc = "") =>
        \A k \in 1..Len(ret.value) :
            LET p == ret.value[k]
                d == p.ideal_distribution
                zeros == [q \in 1..num_qubits |-> "0"]
                ones == [q \in 1..num_qubits |-> "1"]
            IN  /\ p.type = "ghz" =>
                       /\ DOMAIN d = {zeros, ones}
                       /\ d[zeros] = <<1, 2>>
                       /\ d[ones] = <<1, 2>>
                /\ p.type = "rb" =>
                       /\ DOMAIN d = {zeros}
                       /\ d[zeros] = <<1, 1>>
                /\ p.type \in {"ghz", "rb"} =>
                       /\ DOMAIN d # {}
                       /\ \A b \in DOMAIN d : Len(b) = num_qubits

\* make_problems returned a "ghz" and an "rb" problem on two qubits or more
Wit_C2 ==
    /\ ret.op = "make_problems"
    /\ ret.exc = ""
    /\ num_qubits >= 2
    /\ \E j, k \in 1..Len(ret.value) :
           ret.value[j].type = "ghz" /\ ret.value[k].type = "rb"

\* C3: make_problems raises exactly when circuit_types holds an entry other
\* than "ghz", "rb" and "mirror", and the first such entry decides the
\* exception: NotImplementedError for "qv", ValueError naming the entry for
\* anything else; a call that raises returns no list.
Thm_C3 ==
    ret.op = "make_problems" =>
        IF Unsupported = {}
        THEN ret.exc = ""
        ELSE IF circuit_types[FirstUnsupported] = "qv"
        THEN ret.exc = "NotImplementedError"
        ELSE ret.exc = "ValueError" /\ ret.value = circuit_types[FirstUnsupported]

\* make_problems raised for "qv" although an unknown identifier follows it
Wit_C3 ==
    /\ ret.op = "make_problems"
    /\ ret.exc = "NotImplementedError"
    /\ \E k \in Unsupported : circuit_types[k] # "qv"

\* the step is a call of make_problems that raised NotImplementedError
QvCallFailed == ret'.op = "make_problems" /\ ret'.exc = "NotImplementedError"

\* C4 as stated: a make_problems call that raises NotImplementedError on a
\* "qv" entry leaves problem_dict and strategy_dict as they were before it.
Orig_C4 ==
    [][QvCallFailed =>
           problem_dict' = problem_dict /\ strategy_dict' = strategy_dict]_vars

\* C4 as amended: a make_problems call that raises NotImplementedError on a
\* "qv" entry leaves strategy_dict as it was and changes problem_dict only
\* under the ids below the position of that entry: each of these ids now
\* holds the problem generated for its entry, every other id holds what it
\* held before, and no other id is added or removed.
Thm_C4 ==
    [][QvCallFailed =>
           LET before == 0..(FirstUnsupported - 2) IN
           /\ strategy_dict' = strategy_dict
           /\ DOMAIN problem_dict' = (DOMAIN problem_dict) \cup before
           /\ \A id \in before :
                  /\ problem_dict'[id].id = id
                  /\ problem_dict'[id].type = circuit_types[id + 1]
           /\ \A id \in (DOMAIN problem_dict) \ before :
                  problem_dict'[id] = problem_dict[id]]_vars

\* a make_problems call raised NotImplementedError and left problems in
\* problem_dict
Wit_C4 ==
    /\ ret.op = "make_problems"
    /\ ret.exc = "NotImplementedError"
    /\ Cardinality(DOMAIN problem_dict) >= 2
    /\ strategy_dict # EmptyDict

\* the technique a strategy dictionary names, whatever the case of its letters
SameIgnoringCase(chars, name) ==
    /\ Len(chars) = Len(name)
    /\ \A i \in 1..Len(name) :
           \/ chars[i] = name[i]
           \/ \E j \in 1..Len(LowerCase) :
                  LowerCase[j] = chars[i] /\ UpperCase[j] = name[i]

Names(d, m) ==
    /\ "technique" \in DOMAIN d
    /\ SameIgnoringCase(d["technique"].chars, MemberName(m))

\* C5: make_strategies returns one Strategy per configured strategy
\* dictionary, in list order; the one at each position has that position
\* (counted from 0) as its id, the technique the dictionary names, and the
\* dictionary without its "technique" key as technique_params; no Strategy of
\* strategy_dict has "technique" among its technique_params; the eight
\* dictionaries of ZNESettings give eight ZNE strategies.
Thm_C5 ==
    /\ ret.op = "make_strategies" =>
           /\ ret.exc = ""
           /\ Len(ret.value) = Len(args.strategies)
           /\ \A k \in 1..Len(args.strategies) :
                  LET d == args.strategies[k] IN
                  /\ ret.value[k].id = k - 1
                  /\ Names(d, ret.value[k].technique)
                  /\ DOMAIN ret.value[k].technique_params =
                         (DOMAIN d) \ {"technique"}
                  /\ \A x \in (DOMAIN d) \ {"technique"} :
                         ret.value[k].technique_params[x] = d[x]
           /\ args = ZNESettingsArguments =>
                  /\ Len(ret.value) = 8
                  /\ \A k \in 1..8 : ret.value[k].technique = "ZNE"
    /\ \A id \in DOMAIN strategy_dict :
           "technique" \notin DOMAIN strategy_dict[id].technique_params

\* make_strategies ran on the configuration of ZNESettings
Wit_C5 ==
    /\ ret.op = "make_strategies"
    /\ args = ZNESettingsArguments
    /\ Cardinality(DOMAIN strategy_dict) = 8

\* C6: get_strategy raises KeyError for every id that no make_strategies call
\* has generated, whatever make_problems did, and returns the Strategy whose
\* id is the requested one for every generated id.
Thm_C6 ==
    ret.op = "get_strategy" =>
        IF ret.arg \in generated
        THEN ret.exc = "" /\ ret.value.id = ret.arg
        ELSE ret.exc = "KeyError"

\* get_strategy raised after make_problems filled problem_dict and before any
\* make_strategies call
Wit_C6 ==
    /\ ret.op = "get_strategy"
    /\ ret.exc = "KeyError"
    /\ ret.arg = 0
    /\ problem_dict # EmptyDict
    /\ "make_strategies" \notin called
    /\ Len(technique_params) > 0

\* C7: construction generates nothing: right after Settings(...) both tables
\* are empty; from then on the raw configuration never changes, problem_dict
\* changes only in a make_problems call and strategy_dict only in a
\* make_strategies call, and each of these calls leaves the other table as
\* it was.
Thm_C7 ==
    [][/\ (pc = "start" /\ pc' = "ready") =>
              /\ strategy_dict' = EmptyDict
              /\ problem_dict' = EmptyDict
              /\ technique_params' = args.strategies
              /\ circuit_types' = args.circuit_types
              /\ num_qubits' = args.num_qubits
              /\ circuit_depth' = args.circuit_depth
              /\ circuit_seed' = args.circuit_seed
       /\ pc = "ready" =>
              /\ config' = config
              /\ problem_dict' # problem_dict => ret'.op = "make_problems"
              /\ strategy_dict' # strategy_dict => ret'.op = "make_strategies"
              /\ ret'.op = "make_problems" => strategy_dict' = strategy_dict
              /\ ret'.op = "make_strategies" => problem_dict' = problem_dict]_vars

\* both make_* methods have filled their table of the ZNESettings instance
Wit_C7 ==
    /\ args = ZNESettingsArguments
    /\ pc = "ready"
    /\ called = {"make_problems", "make_strategies"}
    /\ Cardinality(DOMAIN problem_dict) = 3
    /\ Cardinality(DOMAIN strategy_dict) = 8

\* a strategy dictionary names technique m
Resolvable(d) == \E m \in MitigationTechnique : Names(d, m)

\* C8: Settings(...) resolves the "technique" of each strategy dictionary to
\* ZNE, PEC or RAW whatever the case of its letters; when every dictionary
\* resolves, techniques holds one technique per dictionary, in list order;
\* when one does not, the constructor raises KeyError and no instance exists.
Thm_C8 ==
    ret.op = "__init__" =>
        IF \A k \in 1..Len(args.strategies) : Resolvable(args.strategies[k])
        THEN /\ pc = "ready"
             /\ ret.exc = ""
             /\ Len(techniques) = Len(args.strategies)
             /\ \A k \in 1..Len(args.strategies) :
                    Names(args.strategies[k], techniques[k])
        ELSE /\ pc = "raised"
             /\ ret.exc = "KeyError"
             /\ techniques = <<>>
             /\ technique_params = <<>>

\* the constructor resolved "Zne" to ZNE
Wit_C8 ==
    /\ ret.op = "__init__"
    /\ pc = "ready"
    /\ \E k \in 1..Len(techniques) :
           /\ args.strategies[k]["technique"].chars = <<"Z", "n", "e">>
           /\ techniques[k] = "ZNE"

\* the keys of a Strategy summary
BareKeys == {"id", "technique"}
ZneKeys == BareKeys \cup {"factory", "scale_factors", "scale_method"}

\* the parameters to_dict reads of a ZNE strategy are there: a factory with
\* scale factors and a named scaling function
ZneParamsFit(params) ==
    /\ "factory" \in DOMAIN params
    /\ params["factory"].kind = "factory"
    /\ "scale_noise" \in DOMAIN params
    /\ params["scale_noise"].kind = "function"

\* C9 as stated: to_dict of every Strategy that make_strategies produced
\* returns a mapping with "id" and "technique", which has the keys "factory",
\* "scale_factors" and "scale_method" besides exactly when the technique is
\* ZNE; it does not fail on a malformed parameter dictionary.
Orig_C9 ==
    ret.op = "to_dict" =>
        /\ ret.exc = ""
        /\ DOMAIN ret.value =
               IF strategy_dict[ret.arg].technique = "ZNE" THEN ZneKeys
               ELSE BareKeys

\* C9 as amended: to_dict of a PEC or RAW Strategy returns exactly its id and
\* the name of its technique; to_dict of a ZNE Strategy whose technique_params
\* hold a factory under "factory" and a named function under "scale_noise"
\* returns these and the factory's class name, its scale factors and the
\* function's name; to_dict of a ZNE Strategy whose technique_params lack
\* either raises KeyError (the key is missing) or AttributeError (the value is
\* of another kind) and returns nothing.
Thm_C9 ==
    ret.op = "to_dict" =>
        LET strategy == strategy_dict[ret.arg]
            params == strategy.technique_params
        IN  IF strategy.technique # "ZNE"
            THEN /\ ret.exc = ""
                 /\ DOMAIN ret.value = BareKeys
                 /\ ret.value["id"] = strategy.id
                 /\ ret.value["technique"] = strategy.technique
            ELSE IF ZneParamsFit(params)
            THEN /\ ret.exc = ""
                 /\ DOMAIN ret.value = ZneKeys
                 /\ ret.value["id"] = strategy.id
                 /\ ret.value["technique"] = "ZNE"
                 /\ ret.value["factory"] = params["factory"].cls
                 /\ ret.value["scale_factors"] = params["factory"].scale_factors
                 /\ ret.value["scale_method"] = params["scale_noise"].name
            ELSE IF {"factory", "scale_noise"} \subseteq DOMAIN params
            THEN ret.exc = "AttributeError"
            ELSE ret.exc \in {"KeyError", "AttributeError"}

\* to_dict raised KeyError on a ZNE strategy built from a dictionary that has
\* no factory
Wit_C9 ==
    /\ ret.op = "to_dict"
    /\ ret.exc = "KeyError"
    /\ strategy_dict[ret.arg].technique = "ZNE"
    /\ "factory" \notin DOMAIN strategy_dict[ret.arg].technique_params

\* the keys of a table are 0..k-1 for some k up to n, and each entry has its
\* key as id
Dense(table, n) ==
    /\ \E k \in 0..n : DOMAIN table = 0..(k - 1)
    /\ \A id \in DOMAIN table : table[id].id = id

\* C10: whatever calls of make_problems and make_strategies have run, raising
\* or not, the keys of problem_dict are 0..k-1 for some k up to the number of
\* circuit types and those of strategy_dict 0..m-1 for some m up to the number
\* of configured strategies, each entry having its key as id; a make_* call
\* that is not the first leaves the key set of its table as it was.
Thm_C10 ==
    [][/\ Dense(problem_dict, Len(circuit_types))
       /\ Dense(strategy_dict, Len(technique_params))
       /\ Dense(problem_dict', Len(circuit_types'))
       /\ Dense(strategy_dict', Len(technique_params'))
       /\ (ret'.op = "make_problems" /\ "make_problems" \in called) =>
              DOMAIN problem_dict' = DOMAIN problem_dict
       /\ (ret'.op = "make_strategies" /\ "make_strategies" \in called) =>
              DOMAIN strategy_dict' = DOMAIN strategy_dict]_vars

\* a make_problems call that raised has left a partly filled problem_dict
\* beside a filled strategy_dict
Wit_C10 ==
    /\ pc = "ready"
    /\ called = {"make_problems", "make_strategies"}
    /\ ret.op = "make_problems"
    /\ ret.exc # ""
    /\ problem_dict # EmptyDict
    /\ Cardinality(DOMAIN problem_dict) < Len(circuit_types)
    /\ Cardinality(DOMAIN strategy_dict) = Len(technique_params)
    /\ strategy_dict # EmptyDict
====
